---- MODULE Spec2Model ----
(***************************************************************************)
(* FTP-Backup-Tool: the archive-set reconciliation and retention engine    *)
(* of backup_ftp.py (class FTPBackup), as a state machine.                 *)
(*                                                                         *)
(* A filename is a sequence of lexemes: the separators "." and "_" and the *)
(* runs of characters between them, so "crm_20260101_020401_full.tar.1" is *)
(* <<"crm","_","20260101","_","020401","_","full",".","tar",".","1">>.     *)
(* No lexeme of the universe is a proper character prefix of another, so   *)
(* str.startswith is sequence prefix, and the string tests of the code     *)
(* ('.tar.' in name, endswith('.tar'), rsplit('.', 1), the timestamp       *)
(* regex) are tests on the lexemes.                                        *)
(***************************************************************************)
EXTENDS Integers, Sequences, FiniteSets, TLC

\* ------------------------------------------------------------------ bounds
MaxRuns == 2
SteadyRuns == 3
MaxFaults == 1
MaxCopiesCfg == 1
SteadyCopies == 2
MaxLocalSets == 3
\* the byte size of every local file
FullSize == 2

\* --------------------------------------------------------- program constants
max_retries == 3
\* _get_archive_timestamp returns None (no timestamp); timestamps are 1, 2, ...
NoTimestamp == 0

\* ------------------------------------------------------------ the filenames
Stem(d) == <<"crm", "_", d, "_", "020401", "_", "full">>
Tar(stem) == stem \o <<".", "tar">>
Vol(stem, n) == Tar(stem) \o <<".", n>>

A0 == Tar(Stem("20260101"))
A1 == Vol(Stem("20260101"), "1")
B0 == Tar(Stem("20260102"))
C0 == Tar(Stem("20260103"))
Q1 == Tar(Stem("20260101")) \o <<".", "tar", ".", "1">>
U0 == Tar(<<"notes">>)

\* The archive sets a backup job can leave in the source directory.
Produced == {{A0, A1}, {B0}, {C0}, {Q1}, {U0}}
Names == UNION Produced

\* ------------------------------------------------------- string operations
Last(s) == s[Len(s)]

StartsWith(s, p) == Len(s) >= Len(p) /\ SubSeq(s, 1, Len(p)) = p

EndsWithTar(f) == Len(f) >= 2 /\ f[Len(f) - 1] = "." /\ f[Len(f)] = "tar"

ContainsTarDot(f) ==
    \E i \in 1..(Len(f) - 2) : f[i] = "." /\ f[i + 1] = "tar" /\ f[i + 2] = "."

LastDot(f) == CHOOSE i \in 1..Len(f) :
                 f[i] = "." /\ \A j \in (i + 1)..Len(f) : f[j] # "."

\* filename.rsplit('.', 1)[0] and filename.split('.')[-1], for a name with a dot
RSplitHead(f) == SubSeq(f, 1, LastDot(f) - 1)
SplitLast(f) == SubSeq(f, LastDot(f) + 1, Len(f))

\* int(s): the value of a decimal lexeme, -1 for ValueError
IntOf(s) ==
    IF Len(s) # 1 THEN -1
    ELSE CASE s[1] = "0" -> 0 [] s[1] = "1" -> 1 [] s[1] = "2" -> 2
           [] s[1] = "3" -> 3 [] OTHER -> -1

None == <<>>

\* FTPBackup._get_archive_base_name: None is the empty name
get_archive_base_name(filename) ==
    IF ~EndsWithTar(filename) /\ ~ContainsTarDot(filename) THEN None
    ELSE IF ContainsTarDot(filename)
         THEN IF ~EndsWithTar(RSplitHead(filename)) THEN None
              ELSE RSplitHead(filename)
         ELSE filename

\* FTPBackup._get_volume_number
get_volume_number(filename) ==
    IF ContainsTarDot(filename)
    THEN IF IntOf(SplitLast(filename)) = -1 THEN 0 ELSE IntOf(SplitLast(filename))
    ELSE 0

\* re.search(r'_(\d{8}_\d{6})_', base_name): the places where it matches
Digits8 == {"20260101", "20260102", "20260103", "20261301"}
Digits6 == {"020401"}
StampAt(s, i) ==
    /\ i + 4 <= Len(s)
    /\ s[i] = "_" /\ s[i + 1] \in Digits8 /\ s[i + 2] = "_"
    /\ s[i + 3] \in Digits6 /\ s[i + 4] = "_"

\* datetime.strptime(d + "_" + t, "%Y%m%d_%H%M%S"): the instants in order,
\* NoTimestamp for ValueError (month 13)
Strptime(d, t) ==
    CASE d = "20260101" -> 1 [] d = "20260102" -> 2 [] d = "20260103" -> 3
      [] OTHER -> NoTimestamp

\* FTPBackup._get_archive_timestamp
get_archive_timestamp(base_name) ==
    IF \E i \in 1..Len(base_name) : StampAt(base_name, i)
    THEN LET i == CHOOSE k \in 1..Len(base_name) :
                     StampAt(base_name, k) /\ \A j \in 1..(k - 1) : ~StampAt(base_name, j)
         IN  Strptime(base_name[i + 1], base_name[i + 3])
    ELSE NoTimestamp

\* ------------------------------------------------------------ list helpers
RECURSIVE Orderings(_)
\* every order in which a directory scan, a listing or a set iteration can
\* enumerate the members of S
Orderings(S) ==
    IF S = {} THEN {<<>>}
    ELSE UNION {{<<x>> \o t : t \in Orderings(S \ {x})} : x \in S}

Range(s) == {s[i] : i \in 1..Len(s)}

\* list.sort(key=_get_volume_number): a stable sort. The file at place i
\* goes behind those of smaller volume number and those of equal number
\* that stand before it. (The list is taken as a value, once.)
SortVolumes(list) ==
    LET Before(s, i) == {j \in 1..Len(s) :
                           \/ get_volume_number(s[j]) < get_volume_number(s[i])
                           \/ get_volume_number(s[j]) = get_volume_number(s[i]) /\ j < i}
        Sorted(s) == [p \in 1..Len(s) |->
                        s[CHOOSE i \in 1..Len(s) : Cardinality(Before(s, i)) = p - 1]]
    IN  CHOOSE r \in {Sorted(s) : s \in {list}} : TRUE

\* the keys of a dict in insertion order: the list without the repetitions
\* of an earlier member
FirstSeen(list) ==
    LET First(s) == {i \in 1..Len(s) : \A j \in 1..(i - 1) : s[j] # s[i]}
        Keys(s) == [p \in 1..Cardinality(First(s)) |->
                      s[CHOOSE i \in First(s) : Cardinality({j \in First(s) : j < i}) = p - 1]]
    IN  CHOOSE r \in {Keys(s) : s \in {list}} : TRUE

\* the orders list.sort(key=lambda x: x[0]) can leave the sets S in: ascending
\* by timestamp, sets of equal timestamp in the order they were enumerated
SortedByTimestamp(S) ==
    {s \in Orderings(S) :
        \A i, j \in 1..Len(s) :
            i < j => get_archive_timestamp(s[i]) <= get_archive_timestamp(s[j])}

\* seq[:-k] of Python
AllButLast(seq, k) ==
    IF k = 0 THEN <<>>
    ELSE IF k > 0 THEN SubSeq(seq, 1, Len(seq) - k)
    ELSE SubSeq(seq, 1, IF -k < Len(seq) THEN -k ELSE Len(seq))

\* ------------------------------------------------------------ the locator
\* .ftpignore is absent: FTPBackup._load_ignore_patterns returns set()
ignore_patterns == {}

\* FTPBackup._should_ignore
should_ignore(filename) ==
    \E pattern \in ignore_patterns :
        IF pattern[1] = "*"
        THEN /\ Len(filename) >= Len(pattern) - 1
             /\ SubSeq(filename, Len(filename) - Len(pattern) + 2, Len(filename))
                    = SubSeq(pattern, 2, Len(pattern))
        ELSE \E i \in 1..Len(filename) :
                 /\ i + Len(pattern) - 1 <= Len(filename)
                 /\ SubSeq(filename, i, i + Len(pattern) - 1) = pattern

\* FTPBackup._get_multi_volume_archives, for a directory enumerated in the
\* order ord: the dict as the sequence of its items
get_multi_volume_archives(ord) ==
    LET Kept(f) == ~should_ignore(f) /\ get_archive_base_name(f) # None
        Grouped(found, keys) ==
            [k \in 1..Len(keys) |->
                LET InSet(f) == get_archive_base_name(f) = keys[k]
                IN  [base |-> keys[k], files |-> SortVolumes(SelectSeq(found, InSet))]]
    IN  CHOOSE archive_files \in
            {Grouped(found, FirstSeen([i \in 1..Len(found) |->
                                          get_archive_base_name(found[i])])) :
                found \in {SelectSeq(SelectSeq(ord, EndsWithTar), Kept)
                             \o SelectSeq(SelectSeq(ord, ContainsTarDot), Kept)}} : TRUE

\* Path.glob(f"{base_name}*") in the source directory
Glob(dir, base_name) == {f \in dir : StartsWith(f, base_name)}

\* ------------------------------------------------------------------- state
VARIABLES
    local,               \* the source directory: its filenames
    remote,              \* the remote directory: filename -> byte size
    produced,            \* the archive sets the backup job has written so far
    max_copies,          \* SETTINGS.max_copies
    max_runs,            \* the runs the schedule makes
    run,                 \* the number of the run
    pc,                  \* where the run is
    status,              \* the exit status of the run, -1 while it runs
    open,                \* the transfer sessions that are open
    self_ftp,            \* self.ftp, 0 for None
    nsess,               \* sessions established so far
    archive_sets,        \* run(): the located sets, in dict order
    idx,                 \* run(): processed_count
    successful_uploads,  \* self.successful_uploads
    failed_uploads,      \* self.failed_uploads
    todo,                \* _process_archive_set: the volumes still to upload
    attempt,             \* _upload_file_to_ftp_with_retry: attempt
    up_ftp,              \* _upload_file_to_ftp_with_retry: its local ftp
    faults,              \* failures injected so far
    remote_dir,          \* config: ftp_config['remote_dir'], a path string
    dirs,                \* the directories of the server, as absolute paths
    denied,              \* the absolute paths where the server refuses MKD
    ftp_cwd,             \* the working directory of the session of self.ftp
    log                  \* what the run has done, for the properties

vars == <<local, remote, produced, max_copies, max_runs, run, pc, status, open, self_ftp,
          nsess, archive_sets, idx, successful_uploads, failed_uploads, todo,
          attempt, up_ftp, faults, remote_dir, dirs, denied, ftp_cwd, log>>

fsvars == <<local, remote>>
cfgvars == <<max_copies>>
sessvars == <<open, self_ftp, nsess>>
loopvars == <<archive_sets, idx, successful_uploads, failed_uploads>>
upvars == <<todo, attempt, up_ftp>>
srvvars == <<remote_dir, dirs, denied, ftp_cwd>>

\* ------------------------------------------------------ the remote path
\* A directory of the server is the sequence of its segments from the root;
\* a path string is absolute (a leading "/") or relative, with its segments.
Root == <<>>
Parent(path) == SubSeq(path, 1, Len(path) - 1)

\* A path string as the server resolves it in the working directory cwd.
Resolve(cwd, p) == IF p.abs THEN p.parts ELSE cwd \o p.parts

\* The remote directory of the configuration, where the path is not the
\* subject: absolute, one segment, present on the server.
DefaultRemoteDir == [abs |-> TRUE, parts |-> <<"backups">>]

\* What the run has done, for the properties.
\*   rlisting, rissued, rremoved: the listing remote prune took, the names it
\*     issued a delete for, the names the server removed
\*   llisting, lissued, lremoved: the same for local prune
\*   pruned: the prunes that ran; perr: a prune raised
\*   results: the outcome of each reconciliation, in order
\*   run_faults: the failures met in this run; new_sets: the sets written
\*     since the run before
\*   cut: the sets an interrupt or an exhausted verification left incomplete
\*     in this run; incomplete: those of the run before
\*   steady: every run so far found exactly one new timestamped set and
\*     completed
\*   ended: how the run ended
\*   listing: existing_files of the reconciliation under way; calls: the
\*     volumes it has called _upload_file_to_ftp_with_retry for, in order
\*   outs, sleeps, ret: of the latest call of _upload_file_to_ftp_with_retry,
\*     the outcome of each pass of its loop, its time.sleep arguments, and how
\*     it ended ("none" while it runs, "true", "false", "raised")
\*   stale: an operation was issued on a session that was not open
\*   stored: _upload_file_to_ftp_with_retry was called in this run
\*   after_clean: the run before completed with every set uploaded and no
\*     failure
\*   walked: the CWD and MKD commands of _ensure_remote_directory that the
\*     server accepted, in order, each with the absolute path it resolved to
\*   ensured: _ensure_remote_directory returned normally
NewLog == [rlisting |-> {}, rissued |-> {}, rremoved |-> {},
           llisting |-> {}, lissued |-> {}, lremoved |-> {},
           pruned |-> {}, perr |-> FALSE, results |-> <<>>,
           run_faults |-> 0, new_sets |-> 0,
           cut |-> {}, incomplete |-> {}, steady |-> TRUE, ended |-> "no",
           listing |-> {}, calls |-> <<>>,
           outs |-> <<>>, sleeps |-> <<>>, ret |-> "none",
           stale |-> FALSE, stored |-> FALSE, after_clean |-> FALSE,
           walked |-> <<>>, ensured |-> FALSE]

\* The record of the latest reconciliation and of its latest upload call is
\* dropped when the run moves on.
Quiet(lg) == [lg EXCEPT !.listing = {}, !.calls = <<>>,
                        !.outs = <<>>, !.sleeps = <<>>, !.ret = "none"]

Init ==
    /\ local = {}
    /\ remote = <<>>
    /\ produced = {}
    /\ max_copies \in 0..MaxCopiesCfg
    /\ max_runs = MaxRuns
    /\ run = 1
    /\ pc = "idle"
    /\ status = -1
    /\ open = {}
    /\ self_ftp = 0
    /\ nsess = 0
    /\ archive_sets = <<>>
    /\ idx = 0
    /\ successful_uploads = {}
    /\ failed_uploads = {}
    /\ todo = <<>>
    /\ attempt = 0
    /\ up_ftp = 0
    /\ faults = 0
    /\ remote_dir = DefaultRemoteDir
    /\ dirs = {Root, DefaultRemoteDir.parts}
    /\ denied = {}
    /\ ftp_cwd = Root
    /\ log = NewLog

\* A failure of the environment (server, network, operator): at most MaxFaults
\* of them in one behaviour.
CanFail == faults < MaxFaults
Failed(lg) == [lg EXCEPT !.run_faults = @ + 1]

\* The backup job writes a new archive set into the source directory: any
\* sets before the first run, at most one between two runs.
Produce(s) ==
    /\ pc = "idle"
    /\ s \notin produced
    /\ run = 1 \/ log.new_sets = 0
    /\ Cardinality({t \in produced : t \cap local # {}}) < MaxLocalSets
    /\ produced' = produced \cup {s}
    /\ local' = local \cup s
    /\ log' = [log EXCEPT !.new_sets = @ + 1,
                          !.steady = @ /\ \A f \in s :
                              get_archive_timestamp(get_archive_base_name(f)) # NoTimestamp]
    /\ UNCHANGED <<remote, max_copies, max_runs, srvvars, run, pc, status, sessvars, loopvars, upvars, faults>>

\* run() leaves: the finally clause quits the session, the process exits.
Exit(code) ==
    /\ status' = code
    /\ pc' = "exit"
    /\ open' = {}

\* run(), lines 590-601: the configuration is read and the session opened;
\* _connect_ftp gives up after its max_retries attempts.
Connect ==
    /\ pc = "idle"
    /\ \E o \in {"ok"} \cup (IF CanFail THEN {"config", "refused"} ELSE {}) :
        IF o = "ok"
        THEN /\ nsess' = nsess + 1
             /\ self_ftp' = nsess + 1
             /\ open' = open \cup {nsess + 1}
             /\ pc' = "ensure"
             /\ ftp_cwd' = Root
             /\ log' = [log EXCEPT !.steady = @ /\ log.new_sets = 1]
             /\ UNCHANGED <<status, faults>>
        ELSE /\ Exit(2)
             /\ faults' = faults + 1
             /\ log' = [Failed(log) EXCEPT !.ended = "fatal"]
             /\ UNCHANGED <<self_ftp, nsess, ftp_cwd>>
    /\ UNCHANGED <<fsvars, produced, max_copies, max_runs, remote_dir, dirs, denied, run,
                   loopvars, upvars>>

\* ------------------------------------------- the remote directory ensurer
\* _ensure_remote_directory, line 227: the k-th value of current_path. The
\* parts of an absolute path begin with "/", so its values are "/", "//a",
\* "//a/b", which the server resolves from the root; those of a relative path
\* are "a", "a/b", which the server resolves in its working directory.
current_path(p, k) == [abs |-> p.abs, parts |-> SubSeq(p.parts, 1, k)]

\* _ensure_remote_directory, lines 226-236: one pass of the loop over the
\* parts. ftp.cwd(current_path) enters the directory when it exists; on
\* error_perm ftp.mkd(current_path) creates it when its parent exists and the
\* server does not refuse, and the working directory stays where it was;
\* an exception of mkd is raised again.
WalkStep(p, k, st, refused) ==
    LET target == Resolve(st.cwd, current_path(p, k))
    IN  IF target \in st.dirs
        THEN [st EXCEPT !.cwd = target,
                        !.walked = Append(@, [op |-> "cwd", path |-> target])]
        ELSE IF Parent(target) \in st.dirs /\ target \notin refused
             THEN [st EXCEPT !.dirs = @ \cup {target},
                             !.walked = Append(@, [op |-> "mkd", path |-> target])]
             ELSE [st EXCEPT !.raised = TRUE]

\* _ensure_remote_directory, lines 224-236: the loop, from pass k on; it ends
\* at the first exception
RECURSIVE Walk(_, _, _, _)
Walk(p, k, st, refused) ==
    IF k > Len(p.parts) \/ st.raised THEN st
    ELSE Walk(p, k + 1, WalkStep(p, k, st, refused), refused)

\* FTPBackup._ensure_remote_directory on a server with the directories
\* tree, in the working directory cwd: ftp.cwd(remote_path) first; on
\* error_perm the walk, then ftp.cwd(remote_path) again, whose failure is
\* swallowed (lines 238-241).
ensure_remote_directory(tree, cwd, refused, p) ==
    LET st0 == [cwd |-> cwd, dirs |-> tree, walked |-> <<>>, raised |-> FALSE]
    IN  IF Resolve(cwd, p) \in tree
        THEN [st0 EXCEPT !.cwd = Resolve(cwd, p),
                         !.walked = <<[op |-> "cwd", path |-> Resolve(cwd, p)]>>]
        ELSE LET st == Walk(p, IF p.abs THEN 0 ELSE 1, st0, refused)
             IN  IF ~st.raised /\ Resolve(st.cwd, p) \in st.dirs
                 THEN [st EXCEPT !.cwd = Resolve(st.cwd, p),
                                 !.walked = Append(@, [op |-> "cwd",
                                                       path |-> Resolve(st.cwd, p)])]
                 ELSE st

\* run(), line 604: _ensure_remote_directory on the session just opened; an
\* exception it raises (of mkd, or of cwd other than error_perm: "fail")
\* reaches the handler of run(), which ends the run with status 2.
EnsureRemoteDirectory ==
    /\ pc = "ensure"
    /\ \E o \in {"ok"} \cup (IF CanFail THEN {"fail"} ELSE {}) :
        \E st \in {ensure_remote_directory(dirs, ftp_cwd, denied, remote_dir)} :
            IF o = "ok" /\ ~st.raised
            THEN /\ pc' = "scan"
                 /\ dirs' = st.dirs
                 /\ ftp_cwd' = st.cwd
                 /\ log' = [log EXCEPT !.walked = st.walked, !.ensured = TRUE]
                 /\ UNCHANGED <<status, open, faults>>
            ELSE /\ Exit(2)
                 /\ dirs' = IF o = "ok" THEN st.dirs ELSE dirs
                 /\ ftp_cwd' = IF o = "ok" THEN st.cwd ELSE ftp_cwd
                 /\ faults' = IF o = "ok" THEN faults ELSE faults + 1
                 /\ log' = [(IF o = "ok" THEN log ELSE Failed(log)) EXCEPT
                               !.ended = "fatal",
                               !.walked = IF o = "ok" THEN st.walked ELSE @]
    /\ UNCHANGED <<fsvars, produced, max_copies, max_runs, remote_dir, denied, run, self_ftp,
                   nsess, loopvars, upvars>>

\* run(), lines 606-613: the local scan; no set found returns None (exit 0)
Scan ==
    /\ pc = "scan"
    /\ \E ord \in Orderings(local) :
        \E sets \in {get_multi_volume_archives(ord)} :
            IF sets = <<>>
            THEN /\ Exit(0)
                 /\ log' = [log EXCEPT !.ended = "completed"]
                 /\ UNCHANGED <<archive_sets, idx>>
            ELSE /\ archive_sets' = sets
                 /\ idx' = 1
                 /\ pc' = "process"
                 /\ UNCHANGED <<status, open, log>>
    /\ UNCHANGED <<fsvars, produced, max_copies, max_runs, srvvars, run, self_ftp, nsess,
                   successful_uploads, failed_uploads, upvars, faults>>

\* A faulty variant of the retention gate: retention whatever the outcome.
AfterLoopAlways(successful) == "cleanup_ftp"

\* run(), lines 641-649: retention only after at least one successful set
AfterLoop(successful) == IF successful # {} THEN "cleanup_ftp" ELSE "finish"

\* A faulty variant of the loop body: every set is counted as failed, the
\* uploaded ones as uploaded too.
RecordFailedAlways(success, lg) ==
    LET base_name == archive_sets[idx].base
        ok == IF success THEN successful_uploads \cup {base_name} ELSE successful_uploads
    IN  /\ successful_uploads' = ok
        /\ failed_uploads' = failed_uploads \cup {base_name}
        /\ log' = [lg EXCEPT !.results = Append(@, [base |-> base_name, ok |-> success])]
        /\ IF idx < Len(archive_sets)
           THEN idx' = idx + 1 /\ pc' = "process"
           ELSE idx' = idx /\ pc' = AfterLoop(ok)
        /\ todo' = <<>>
        /\ attempt' = 0
        /\ up_ftp' = 0
        /\ UNCHANGED archive_sets

\* A faulty variant of the loop body: a failed set ends the loop.
RecordAndStop(success, lg) ==
    LET base_name == archive_sets[idx].base
        ok == IF success THEN successful_uploads \cup {base_name} ELSE successful_uploads
    IN  /\ successful_uploads' = ok
        /\ failed_uploads' = IF success THEN failed_uploads
                             ELSE failed_uploads \cup {base_name}
        /\ log' = [lg EXCEPT !.results = Append(@, [base |-> base_name, ok |-> success])]
        /\ IF idx < Len(archive_sets) /\ success
           THEN idx' = idx + 1 /\ pc' = "process"
           ELSE idx' = idx /\ pc' = AfterLoop(ok)
        /\ todo' = <<>>
        /\ attempt' = 0
        /\ up_ftp' = 0
        /\ UNCHANGED archive_sets

\* run(), lines 622-639: the outcome of _process_archive_set for the set at
\* idx is recorded and the loop goes on
Record(success, lg) ==
    LET base_name == archive_sets[idx].base
        ok == IF success THEN successful_uploads \cup {base_name} ELSE successful_uploads
    IN  /\ successful_uploads' = ok
        /\ failed_uploads' = IF success THEN failed_uploads
                             ELSE failed_uploads \cup {base_name}
        /\ log' = [lg EXCEPT !.results = Append(@, [base |-> base_name, ok |-> success])]
        /\ IF idx < Len(archive_sets)
           THEN idx' = idx + 1 /\ pc' = "process"
           ELSE idx' = idx /\ pc' = AfterLoop(ok)
        /\ todo' = <<>>
        /\ attempt' = 0
        /\ up_ftp' = 0
        /\ UNCHANGED archive_sets

\* _check_archive_exists_on_ftp: the remote names that start with base_name,
\* none when the listing fails
check_archive_exists_on_ftp(listed, base_name) ==
    IF listed THEN {f \in DOMAIN remote : StartsWith(f, base_name)} ELSE {}

\* A faulty variant of the reconciler: only the first volume is uploaded.
VolumesToUploadFirst(archive_set, existing_files) == <<Head(archive_set)>>

\* _process_archive_set, lines 403-432: the volumes to upload, in order
VolumesToUpload(archive_set, existing_files) ==
    IF existing_files # {}
    THEN IF Cardinality(existing_files) = Len(archive_set) THEN <<>>
         ELSE LET Missing(f) == f \in Range(archive_set) \ existing_files
              IN  SelectSeq(archive_set, Missing)
    ELSE archive_set

\* _process_archive_set up to its first upload
ProcessArchiveSet ==
    /\ pc = "process"
    /\ \E o \in {"ok"} \cup (IF CanFail /\ self_ftp \in open THEN {"fail"} ELSE {}) :
        LET set == archive_sets[idx]
            listed == self_ftp \in open /\ o = "ok"
            existing_files == check_archive_exists_on_ftp(listed, set.base)
            need == VolumesToUpload(set.files, existing_files)
            lg == [Quiet(IF o = "ok" THEN log ELSE Failed(log)) EXCEPT
                      !.listing = existing_files,
                      !.stale = @ \/ self_ftp \notin open]
        IN  /\ faults' = IF o = "ok" THEN faults ELSE faults + 1
            /\ IF need = <<>>
               THEN Record(TRUE, lg)
               ELSE /\ todo' = need
                    /\ attempt' = 0
                    /\ up_ftp' = self_ftp
                    /\ log' = lg
                    /\ pc' = "upload"
                    /\ UNCHANGED loopvars
    /\ UNCHANGED <<fsvars, produced, max_copies, max_runs, srvvars, run, status, sessvars>>

\* local_file.stat().st_size
LocalSize(f) == FullSize

\* A faulty variant of the verification: whatever the server answers.
verify_nothing(rem, f, answered) == TRUE

\* _verify_file_integrity on the remote directory rem: the size query is
\* answered and the sizes agree
verify_file_integrity(rem, f, answered) ==
    answered /\ f \in DOMAIN rem /\ rem[f] = LocalSize(f)

\* What one attempt can meet on an open session: the store completes ("ok"),
\* completes with a short remote file ("short"), completes but the size query
\* fails ("nosize"), ftplib.error_temp is raised by cwd or by the store
\* ("temp"), or another exception is ("error"). The attempts of one call
\* after its first failure are not counted again as failures.
UploadOutcomes ==
    {"ok"} \cup (IF CanFail \/ attempt > 0
                 THEN {"short", "nosize", "temp", "error"}
                 ELSE {})

\* the remote directory after ftp.storbinary of f with outcome o
StoreResult(o, f) ==
    CASE o \in {"ok", "nosize"} -> (f :> LocalSize(f)) @@ remote
      [] o = "short" -> (f :> LocalSize(f) - 1) @@ remote
      [] OTHER -> remote

\* Some volume of the set is absent from the remote directory rem or has
\* another size there than locally.
Incomplete(rem, files) ==
    \E f \in Range(files) : f \notin DOMAIN rem \/ rem[f] # LocalSize(f)

\* A faulty variant of the backoff: one second whatever the attempt.
BackoffConstant(a) == 1

\* _upload_file_to_ftp_with_retry, lines 375 and 390: time.sleep(2 ** attempt)
Backoff(a) == 2 ^ a

\* A faulty variant of the retry loop: a pause before every further attempt.
SleepsBeforeRetryAlways(o) == TRUE

\* _upload_file_to_ftp_with_retry, lines 368-390: time.sleep is called in the
\* two except branches only; a failed verification (line 370) logs a warning
\* and falls through to the next pass of the loop.
SleepsBeforeRetry(o) == o \in {"temp", "temp_partial", "closed", "error", "error_partial"}

\* A faulty variant of the reconciler: the volumes after a failed one are
\* uploaded all the same.
UploadReturnedGoOn(success, lg) ==
    IF Tail(todo) # <<>>
    THEN /\ todo' = Tail(todo)
         /\ attempt' = 0
         /\ up_ftp' = self_ftp
         /\ log' = lg
         /\ UNCHANGED <<loopvars, pc>>
    ELSE Record(success, lg)

\* _process_archive_set, lines 421-435, after an upload call has returned
UploadReturned(success, lg) ==
    IF success /\ Tail(todo) # <<>>
    THEN /\ todo' = Tail(todo)
         /\ attempt' = 0
         /\ up_ftp' = self_ftp
         /\ log' = lg
         /\ UNCHANGED <<loopvars, pc>>
    ELSE Record(success, lg)

\* _upload_file_to_ftp_with_retry: one pass of its loop, for the first volume
\* of todo, on the session the call holds
UploadAttempt ==
    /\ pc = "upload"
    /\ \E o \in (IF up_ftp \in open THEN UploadOutcomes ELSE {"closed"}) :
        LET f == Head(todo)
            rem == StoreResult(o, f)
            transient == o \in {"temp", "temp_partial"}
            raised == o \in {"closed", "error", "error_partial"}
            verified == ~transient /\ ~raised /\ verify_file_integrity(rem, f, o # "nosize")
            last == attempt >= max_retries - 1
            n == IF o \in {"ok", "closed"} \/ attempt > 0 THEN 0 ELSE 1
            entered == IF attempt > 0 THEN log
                       ELSE [log EXCEPT !.calls = Append(@, f), !.stored = TRUE,
                                        !.outs = <<>>, !.sleeps = <<>>, !.ret = "none"]
            lg == [(IF o \in {"ok", "closed"} THEN entered ELSE Failed(entered)) EXCEPT
                      !.outs = Append(@, o),
                      !.stale = @ \/ o = "closed"]
            slept == [lg EXCEPT !.sleeps = Append(@, Backoff(attempt))]
            base_name == archive_sets[idx].base
        IN  /\ remote' = rem
            /\ CASE verified ->
                    /\ UploadReturned(TRUE, [lg EXCEPT !.ret = "true"])
                    /\ faults' = faults + n
                    /\ UNCHANGED <<open, nsess>>
                 [] ~verified /\ last ->
                    /\ UploadReturned(FALSE,
                          IF transient \/ raised
                             \/ ~Incomplete(rem, archive_sets[idx].files)
                          THEN [lg EXCEPT !.ret = "false"]
                          ELSE [lg EXCEPT !.ret = "false", !.cut = @ \cup {base_name}])
                    /\ faults' = faults + n
                    /\ UNCHANGED <<open, nsess>>
                 [] ~verified /\ ~transient /\ ~last ->
                    \* verification failed or another exception: the next attempt
                    /\ attempt' = attempt + 1
                    /\ faults' = faults + n
                    /\ log' = IF SleepsBeforeRetry(o) THEN slept ELSE lg
                    /\ UNCHANGED <<open, nsess, todo, up_ftp, loopvars, pc>>
                 [] transient /\ ~last ->
                    \* ftp.quit(), then ftp = self._connect_ftp()
                    \E c \in {"ok", "refused"} :
                        IF c = "ok"
                        THEN /\ nsess' = nsess + 1
                             /\ open' = (open \ {up_ftp}) \cup {nsess + 1}
                             /\ up_ftp' = nsess + 1
                             /\ attempt' = attempt + 1
                             /\ faults' = faults + n
                             /\ log' = slept
                             /\ UNCHANGED <<todo, loopvars, pc>>
                        ELSE \* ConnectionError leaves the call; _process_archive_set
                             \* catches it and returns False
                             /\ open' = open \ {up_ftp}
                             /\ faults' = faults + n
                             /\ Record(FALSE, Failed([slept EXCEPT !.ret = "raised"]))
                             /\ UNCHANGED nsess
    /\ UNCHANGED <<local, produced, max_copies, max_runs, srvvars, run, status, self_ftp>>

\* The process is interrupted during a store (KeyboardInterrupt, exit 130):
\* the volume being sent is left absent or partial on the remote side.
Interrupt ==
    /\ pc = "upload"
    /\ up_ftp \in open
    /\ CanFail
    /\ \E partial \in BOOLEAN :
        remote' = IF partial THEN StoreResult("short", Head(todo)) ELSE remote
    /\ Exit(130)
    /\ faults' = faults + 1
    /\ log' = [Failed(log) EXCEPT
                  !.ended = "interrupted",
                  !.cut = IF Incomplete(remote', archive_sets[idx].files)
                          THEN @ \cup {archive_sets[idx].base} ELSE @]
    /\ UNCHANGED <<local, produced, max_copies, max_runs, srvvars, run, self_ftp, nsess, loopvars, upvars>>

\* A faulty variant of the remote selection: sets without a timestamp are
\* candidates too.
RemoteCandidatesAll(files) ==
    {b \in successful_uploads : \E f \in files : get_archive_base_name(f) = b}

\* _cleanup_old_ftp_backups, lines 460-476 on the listing files: the sets of
\* this run's successful uploads that have a timestamp
RemoteCandidates(files) ==
    {b \in successful_uploads :
        /\ \E f \in files : get_archive_base_name(f) = b
        /\ get_archive_timestamp(b) # NoTimestamp}

\* _cleanup_old_ftp_backups, lines 481-483: the sets to remove, of the sets
\* in ascending order
RemoteToRemove(order, copies) ==
    IF Len(order) > copies THEN AllButLast(order, copies) ELSE <<>>

\* A faulty variant of the retention phases: remote prune again after local
\* prune.
PhaseAfterSwapped(phase) ==
    IF phase = "cleanup_ftp" THEN "cleanup_local" ELSE "cleanup_ftp"

\* run(), lines 641-649: _cleanup_old_ftp_backups, then
\* _cleanup_local_archives, then the summary
PhaseAfter(phase) ==
    IF phase = "cleanup_ftp" THEN "cleanup_local" ELSE "finish"

\* A faulty variant of the delete loop: the first failure ends it.
DeletesIssuedUntilFailure(targets, failing) ==
    IF failing = {} THEN targets ELSE failing

\* _cleanup_old_ftp_backups, lines 484-490: ftp.delete is called for every
\* listed file of every set to remove; a delete that raises is logged inside
\* the loop, which goes on with the next file.
DeletesIssued(targets, failing) == targets

\* _cleanup_old_ftp_backups
CleanupOldFtpBackups ==
    /\ pc = "cleanup_ftp"
    /\ \E o \in {"ok"} \cup (IF CanFail /\ self_ftp \in open THEN {"fail"} ELSE {}) :
        IF self_ftp \in open /\ o = "ok"
        THEN LET files == DOMAIN remote
             IN  \E order \in SortedByTimestamp(RemoteCandidates(files)) :
                   LET to_remove == Range(RemoteToRemove(order, max_copies))
                       targets == {f \in files : get_archive_base_name(f) \in to_remove}
                   IN  \E failing \in SUBSET targets :
                         /\ Cardinality(failing) <= MaxFaults - faults
                         /\ remote' = [f \in files \ (DeletesIssued(targets, failing) \ failing)
                                          |-> remote[f]]
                         /\ faults' = faults + Cardinality(failing)
                         /\ log' = [Quiet(log) EXCEPT !.pruned = @ \cup {"remote"},
                                               !.rlisting = files,
                                               !.rissued = DeletesIssued(targets, failing),
                                               !.rremoved = DeletesIssued(targets, failing) \ failing,
                                               !.run_faults = @ + Cardinality(failing)]
        ELSE \* cwd or NLST raises: logged, nothing deleted
             /\ faults' = IF self_ftp \in open THEN faults + 1 ELSE faults
             /\ log' = [Quiet(log) EXCEPT !.pruned = @ \cup {"remote"},
                                   !.perr = TRUE,
                                   !.stale = @ \/ self_ftp \notin open,
                                   !.run_faults = IF self_ftp \in open THEN @ + 1 ELSE @]
             /\ UNCHANGED remote
    /\ pc' = PhaseAfter("cleanup_ftp")
    /\ UNCHANGED <<local, produced, max_copies, max_runs, srvvars, run, status, sessvars, loopvars, upvars>>

\* _cleanup_local_archives, lines 503-510: the successful sets with local files
LocalSuccessfulSets == {b \in successful_uploads : Glob(local, b) # {}}

\* _cleanup_local_archives, lines 530-532: all but the most recent set
LocalToRemove(order) == SubSeq(order, 1, Len(order) - 1)

\* _cleanup_local_archives
CleanupLocalArchives ==
    /\ pc = "cleanup_local"
    /\ LET stamped == {b \in LocalSuccessfulSets : get_archive_timestamp(b) # NoTimestamp}
       IN  IF Cardinality(LocalSuccessfulSets) <= 1 \/ stamped = {}
           THEN /\ log' = [log EXCEPT !.pruned = @ \cup {"local"}, !.llisting = local]
                /\ UNCHANGED <<local, faults>>
           ELSE \E order \in SortedByTimestamp(stamped) :
                  LET targets == UNION {Glob(local, b) : b \in Range(LocalToRemove(order))}
                  IN  \E failing \in SUBSET targets :
                        /\ Cardinality(failing) <= MaxFaults - faults
                        /\ local' = local \ (targets \ failing)
                        /\ faults' = faults + Cardinality(failing)
                        /\ log' = [log EXCEPT !.pruned = @ \cup {"local"},
                                              !.llisting = local,
                                              !.lissued = targets,
                                              !.lremoved = targets \ failing,
                                              !.run_faults = @ + Cardinality(failing)]
    /\ pc' = PhaseAfter("cleanup_local")
    /\ UNCHANGED <<remote, produced, max_copies, max_runs, srvvars, run, status, sessvars, loopvars, upvars>>

\* A faulty variant of the exit status: failed sets are not reported.
ExitStatusZero(failed) == 0

\* run(), lines 651-662, and main(): the exit status of a completed run
ExitStatus(failed) == IF failed # {} THEN 1 ELSE 0

Finish ==
    /\ pc = "finish"
    /\ Exit(ExitStatus(failed_uploads))
    /\ log' = [Quiet(log) EXCEPT !.ended = "completed"]
    /\ UNCHANGED <<fsvars, produced, max_copies, max_runs, srvvars, run, self_ftp, nsess, loopvars, upvars,
                   faults>>

\* The next scheduled run: a new process, with fresh accumulators.
NextRun ==
    /\ pc = "exit"
    /\ run < max_runs
    /\ run' = run + 1
    /\ pc' = "idle"
    /\ status' = -1
    /\ self_ftp' = 0
    /\ archive_sets' = <<>>
    /\ idx' = 0
    /\ successful_uploads' = {}
    /\ failed_uploads' = {}
    /\ log' = [NewLog EXCEPT !.incomplete = log.cut,
                             !.after_clean = /\ log.ended = "completed"
                                             /\ successful_uploads # {}
                                             /\ failed_uploads = {}
                                             /\ log.run_faults = 0,
                             !.steady = log.steady /\ log.ended = "completed"]
    /\ nsess' = 0
    /\ UNCHANGED <<fsvars, produced, max_copies, max_runs, srvvars, open, upvars, faults>>

Next ==
    \/ \E s \in Produced : Produce(s)
    \/ Connect
    \/ EnsureRemoteDirectory
    \/ Scan
    \/ ProcessArchiveSet
    \/ UploadAttempt
    \/ Interrupt
    \/ CleanupOldFtpBackups
    \/ CleanupLocalArchives
    \/ Finish
    \/ NextRun

Spec == Init /\ [][Next]_vars

\* The schedule without failures: every operation of the session succeeds and
\* no run is interrupted.
InitSteady ==
    /\ local = {}
    /\ remote = <<>>
    /\ produced = {}
    /\ max_copies \in 1..SteadyCopies
    /\ max_runs = SteadyRuns
    /\ run = 1
    /\ pc = "idle"
    /\ status = -1
    /\ open = {}
    /\ self_ftp = 0
    /\ nsess = 0
    /\ archive_sets = <<>>
    /\ idx = 0
    /\ successful_uploads = {}
    /\ failed_uploads = {}
    /\ todo = <<>>
    /\ attempt = 0
    /\ up_ftp = 0
    /\ faults = MaxFaults
    /\ remote_dir = DefaultRemoteDir
    /\ dirs = {Root, DefaultRemoteDir.parts}
    /\ denied = {}
    /\ ftp_cwd = Root
    /\ log = NewLog

NextSteady ==
    \/ \E s \in Produced : Produce(s)
    \/ Connect
    \/ EnsureRemoteDirectory
    \/ Scan
    \/ ProcessArchiveSet
    \/ UploadAttempt
    \/ CleanupOldFtpBackups
    \/ CleanupLocalArchives
    \/ Finish
    \/ NextRun

SpecSteady == InitSteady /\ [][NextSteady]_vars

\* One run on a source directory of any content, with every operation
\* succeeding. The directory is drawn from names that meet the corners of the
\* locator: a set of three volumes v.tar, v.tar.1, v.tar.2; suffixes int()
\* rejects (v.tar.bak, v.tar.old: volume 0); a name both glob patterns match
\* (v.tar.tar); a file that is no archive.
MaxDirFiles == 3

V0 == Tar(<<"v">>)
V1 == Vol(<<"v">>, "1")
V2 == Vol(<<"v">>, "2")
Vbak == Vol(<<"v">>, "bak")
Vold == Vol(<<"v">>, "old")
Vtar == Vol(<<"v">>, "tar")
Readme == <<"readme", ".", "txt">>
DirNames == {V0, V1, V2, Vbak, Vold, Vtar, Readme}

InitDir ==
    /\ local \in {d \in SUBSET DirNames : Cardinality(d) \in 1..MaxDirFiles}
    /\ remote = <<>>
    /\ produced = {}
    /\ max_copies \in 0..MaxCopiesCfg
    /\ max_runs = 1
    /\ run = 1
    /\ pc = "idle"
    /\ status = -1
    /\ open = {}
    /\ self_ftp = 0
    /\ nsess = 0
    /\ archive_sets = <<>>
    /\ idx = 0
    /\ successful_uploads = {}
    /\ failed_uploads = {}
    /\ todo = <<>>
    /\ attempt = 0
    /\ up_ftp = 0
    /\ faults = MaxFaults
    /\ remote_dir = DefaultRemoteDir
    /\ dirs = {Root, DefaultRemoteDir.parts}
    /\ denied = {}
    /\ ftp_cwd = Root
    /\ log = NewLog

NextDir ==
    \/ Connect
    \/ EnsureRemoteDirectory
    \/ Scan
    \/ ProcessArchiveSet
    \/ UploadAttempt
    \/ CleanupOldFtpBackups
    \/ CleanupLocalArchives
    \/ Finish

\* run() is one sequential process: while a step is possible it is taken.
SpecDir == InitDir /\ [][NextDir]_vars /\ WF_vars(NextDir)

\* ------------------------------------------------------------ the claims
\* The set being recorded by the step, when the step records one.
Recorded(i) ==
    /\ i \in 1..Len(archive_sets)
    /\ Len(log'.results) = Len(log.results) + 1
    /\ i = idx

\* C1: whenever a run records an archive set Uploaded, every local volume
\* filename of the set is in the remote directory under its exact name at that
\* moment, the skip on equal counts included.
C1_UploadedSetIsRemote ==
    [][\A i \in 1..Len(archive_sets) :
          (Recorded(i) /\ archive_sets[i].base \in successful_uploads')
              => Range(archive_sets[i].files) \subseteq DOMAIN remote']_vars

\* The located set with base name b, and its local volumes.
FilesOfSet(b) ==
    UNION {Range(archive_sets[i].files) : i \in {j \in 1..Len(archive_sets) : archive_sets[j].base = b}}

\* C2: neither prune deletes a file of a set recorded Failed in the run: no
\* local volume of a Failed set is removed and no remote file of its base name
\* is removed, whatever the other sets are.
C2_FailedSetUntouched ==
    \A b \in failed_uploads :
        /\ FilesOfSet(b) \cap log.lremoved = {}
        /\ \A f \in log.rremoved : get_archive_base_name(f) # b

\* the timestamped sets recorded Uploaded, and the newest of them
StampedUploaded == {b \in successful_uploads : get_archive_timestamp(b) # NoTimestamp}
Newest(S) == {b \in S : \A c \in S : get_archive_timestamp(c) <= get_archive_timestamp(b)}

\* C3: after local prune, every local file of the most recent Uploaded set is
\* still there (of one of them, when several share the newest timestamp).
C3_NewestUploadedSurvives ==
    ("local" \in log.pruned /\ StampedUploaded # {})
        => \E b \in Newest(StampedUploaded) : FilesOfSet(b) \cap log.lremoved = {}

\* C4: a set that the run before left incomplete (a volume missing or of
\* another size on the remote side), when a run without failures records it
\* Uploaded, has every local volume on the remote side with the local size.
C4_RepairedBeforeUploaded ==
    [][\A i \in 1..Len(archive_sets) :
          (/\ Recorded(i)
           /\ archive_sets[i].base \in successful_uploads'
           /\ archive_sets[i].base \in log.incomplete
           /\ log'.run_faults = 0)
              => ~Incomplete(remote', archive_sets[i].files)]_vars

\* the timestamped archive sets in the remote directory
RemoteStampedSets ==
    {b \in {get_archive_base_name(f) : f \in DOMAIN remote} :
        b # None /\ get_archive_timestamp(b) # NoTimestamp}

\* C5: when every run finds one new timestamped set and every operation
\* succeeds, the remote directory holds at most max_copies timestamped sets
\* after each remote prune.
C5_RemoteBounded ==
    (pc \in {"cleanup_local", "finish", "exit"} /\ "remote" \in log.pruned
        /\ log.steady /\ log.run_faults = 0 /\ max_copies >= 1)
        => Cardinality(RemoteStampedSets) <= max_copies

\* the names of listing whose base name is in S
NamesOf(listing, S) == {f \in listing : get_archive_base_name(f) \in S}

\* C6: remote prune issues a delete for exactly the files of the successful,
\* timestamped sets of its listing other than the newest max_copies of them.
C6_RemotePruneExact ==
    ("remote" \in log.pruned /\ ~log.perr)
        => LET cand == {b \in StampedUploaded : NamesOf(log.rlisting, {b}) # {}}
               keep == IF max_copies < Cardinality(cand) THEN max_copies
                       ELSE Cardinality(cand)
           IN  \E K \in SUBSET cand :
                 /\ Cardinality(K) = keep
                 /\ \A k \in K, d \in cand \ K :
                        get_archive_timestamp(d) <= get_archive_timestamp(k)
                 /\ log.rissued = NamesOf(log.rlisting, cand \ K)

\* C7: local prune removes exactly the local files of the successful,
\* timestamped sets other than the newest one, nothing when fewer than two
\* such sets exist, and no file that belongs to no successful set.
C7_LocalPruneExact ==
    "local" \in log.pruned
        => LET cand == {b \in StampedUploaded : NamesOf(log.llisting, {b}) # {}}
           IN  IF Cardinality(cand) < 2 THEN log.lissued = {}
               ELSE \E k \in Newest(cand) :
                      log.lissued = NamesOf(log.llisting, cand \ {k})

\* C8: in a run that has recorded no set Uploaded, no prune runs and no
\* remote delete or local removal is issued.
C8_NoUploadNoPrune ==
    successful_uploads = {}
        => log.pruned = {} /\ log.rissued = {} /\ log.lissued = {}

C8_Witness ==
    /\ pc = "exit" /\ log.ended = "completed"
    /\ failed_uploads # {} /\ successful_uploads = {}

\* C9: the exit status is 0 exactly when the run completed without a Failed
\* set, 1 exactly when it completed with one, 2 exactly when an unrecoverable
\* error ended it; an error inside a prune leaves it 0 or 1.
C9_ExitStatus ==
    pc = "exit"
        => /\ status = 0 <=> (log.ended = "completed" /\ failed_uploads = {})
           /\ status = 1 <=> (log.ended = "completed" /\ failed_uploads # {})
           /\ status = 2 <=> log.ended = "fatal"
           /\ log.perr => status \in {0, 1}

C9_Witness ==
    pc = "exit" /\ status = 1 /\ log.perr

\* C10: the failure of a set never ends the loop: the sets are reconciled
\* once each in scan order, each failure recorded under the set's base name,
\* and a run that reaches retention or completes has reconciled them all.
C10_EverySetReconciled ==
    /\ Len(log.results) <= Len(archive_sets)
    /\ \A k \in 1..Len(log.results) :
        /\ log.results[k].base = archive_sets[k].base
        /\ log.results[k].ok <=> archive_sets[k].base \in successful_uploads
        /\ ~log.results[k].ok <=> archive_sets[k].base \in failed_uploads
    /\ (pc \in {"cleanup_ftp", "cleanup_local", "finish"}
          \/ (pc = "exit" /\ log.ended = "completed"))
        => Len(log.results) = Len(archive_sets)

C10_Witness ==
    /\ pc = "exit" /\ log.ended = "completed"
    /\ Len(log.results) >= 2
    /\ ~log.results[1].ok /\ log.results[2].ok
\* C11: one call of _upload_file_to_ftp_with_retry makes at most max_retries
\* passes, returns False only after the last of them, and never ends by an
\* exception reaching its caller, whatever fails (a refused reconnect
\* included).
C11_ExecutorReturnsBoolean ==
    /\ Len(log.outs) <= max_retries
    /\ log.ret \in {"none", "true", "false"}
    /\ log.ret = "false" => Len(log.outs) = max_retries

\* C12: after a transient error on the pass of index a with passes left, the
\* call sleeps 2^a seconds, quits its session and holds a newly established,
\* open one for the next pass; transient, transient, success gives the sleeps
\* 1 then 2, three passes and True.
C12_BackoffAndFreshSession ==
    [][/\ (pc = "upload" /\ pc' = "upload" /\ attempt' = attempt + 1
            /\ Last(log'.outs) = "temp")
          => /\ log'.sleeps = Append(IF attempt = 0 THEN <<>> ELSE log.sleeps, 2 ^ attempt)
             /\ up_ftp \notin open'
             /\ up_ftp' \in open' \ open
       /\ (log'.outs = <<"temp", "temp", "ok">>)
          => log'.ret = "true" /\ log'.sleeps = <<1, 2>> /\ Len(log'.outs) = 3]_vars

C12_Witness == log.ret = "true" /\ log.outs = <<"temp", "temp", "ok">>

\* C13: every session operation of the run (cwd, NLST, STOR, SIZE, DELE) is
\* issued on a session that is open, also after an upload has replaced the
\* session following a transient error.
C13_OperationsOnOpenSession == ~log.stale

\* C14: a reconciliation whose listing holds as many names starting with
\* base_name as the set has local volumes calls no upload and records the set
\* Uploaded; and a run that follows a run in which every set was uploaded
\* and nothing failed, with no new file in between, calls no upload.
C14_IdempotentSkip ==
    [][/\ \A i \in 1..Len(archive_sets) :
            (Recorded(i) /\ Cardinality(log'.listing) = Len(archive_sets[i].files))
              => log'.calls = <<>> /\ archive_sets[i].base \in successful_uploads'
       /\ (log'.after_clean /\ log'.new_sets = 0 /\ log'.run_faults = 0)
              => ~log'.stored]_vars

\* C15: when the listing holds some but not all of the volumes of a set, the
\* reconciliation calls the upload exactly once for each local volume that is
\* not in the listing and for no volume that is.
C15_RepairUploadsMissing ==
    [][\A i \in 1..Len(archive_sets) :
          LET files == Range(archive_sets[i].files)
              present == files \cap log'.listing
          IN  (Recorded(i) /\ present # {} /\ present # files)
                => /\ Range(log'.calls) = files \ present
                   /\ Len(log'.calls) = Cardinality(Range(log'.calls))]_vars

IsPrefix(a, b) == Len(a) <= Len(b) /\ a = SubSeq(b, 1, Len(a))

\* C19: the volumes are uploaded one after the other in the order of the
\* set, which is ascending in volume number (all of them when nothing of the
\* set is listed, the missing ones otherwise); when an upload call fails the
\* set is recorded Failed at once and no later volume of it is uploaded; a
\* set recorded Uploaded has had every needed volume uploaded.
C19_InOrderStopAtFailure ==
    [][(pc \in {"process", "upload"} /\ idx \in 1..Len(archive_sets)) =>
          LET set == archive_sets[idx]
              need == VolumesToUpload(set.files, log'.listing)
          IN  /\ IsPrefix(log'.calls, need)
              /\ log'.listing = {} => need = set.files
              /\ \A j, k \in 1..Len(need) :
                    j < k => get_volume_number(need[j]) <= get_volume_number(need[k])
              /\ log'.ret \in {"false", "raised"}
                    => /\ Recorded(idx)
                       /\ set.base \in failed_uploads'
                       /\ pc' # "upload"
              /\ (Recorded(idx) /\ set.base \in successful_uploads')
                    => log'.calls = need]_vars

C19_Witness ==
    /\ log.ret = "false" /\ pc # "upload"
    /\ Len(log.results) > 0 /\ ~log.results[Len(log.results)].ok
    /\ \E i \in 1..Len(archive_sets) :
          /\ archive_sets[i].base = log.results[Len(log.results)].base
          /\ Len(archive_sets[i].files) > Len(log.calls)

\* C20: an upload call returns True only when its last pass stored the file
\* without error and the size the server then reported equals the local
\* size; an unanswered size query or another size never gives True.
C20_SuccessMeansVerified ==
    log.ret = "true" =>
        /\ Last(log.outs) = "ok"
        /\ Last(log.calls) \in DOMAIN remote
        /\ remote[Last(log.calls)] = LocalSize(Last(log.calls))

C20_Witness ==
    /\ log.ret = "true" /\ Len(log.outs) = 2 /\ log.outs[1] \in {"short", "nosize"}

\* the dict of a scan as a function from base_name to the list of volumes
Mapping(sets) ==
    [b \in {sets[i].base : i \in 1..Len(sets)} |->
        (CHOOSE e \in Range(sets) : e.base = b).files]

\* C16: whatever the order in which the source directory is enumerated, the
\* locator gives the same volume list for the same base_name, also when
\* several files of a set have the same volume number.
C16_GroupingDeterministic ==
    pc \in {"process", "upload"} =>
        \A ord \in Orderings(local) :
            Mapping(get_multi_volume_archives(ord)) = Mapping(archive_sets)

\* C17: every set the locator produces lists its volumes in strictly
\* ascending volume number (so no number twice) and lists no file twice.
C17_VolumesSortedUnique ==
    \A i \in 1..Len(archive_sets) :
        LET files == archive_sets[i].files
        IN  \A j, k \in 1..Len(files) :
                j < k => /\ get_volume_number(files[j]) < get_volume_number(files[k])
                         /\ files[j] # files[k]

\* C18: a run on a source directory holding one set of three volumes, with
\* an empty remote directory and every operation succeeding, ends with the
\* three names in the remote directory, the set recorded Uploaded, the three
\* local files still there and exit status 0.
C18_EndToEnd ==
    (pc = "idle" /\ local = {V0, V1, V2} /\ DOMAIN remote = {})
        ~> /\ pc = "exit" /\ status = 0
           /\ DOMAIN remote = {V0, V1, V2}
           /\ successful_uploads = {V0} /\ failed_uploads = {}
           /\ local = {V0, V1, V2}

C18_Witness ==
    /\ pc = "exit" /\ status = 0 /\ DOMAIN remote = {V0, V1, V2}
    /\ successful_uploads = {V0} /\ local = {V0, V1, V2}
    /\ log.results = <<[base |-> V0, ok |-> TRUE]>>

\* C21: when a pass of the upload loop stored the file but the size check
\* failed (the server reports another size, or none) and passes are left, the
\* next pass follows at once: no pause is added, the session of the call is
\* neither closed nor replaced, no session is opened, the same volume stays
\* first to send; and a pass that follows such a failure and stores the file
\* leaves the whole file (its local size) on the remote side.
C21_VerificationRetryImmediate ==
    [][/\ (/\ pc = "upload" /\ pc' = "upload" /\ run' = run
           /\ attempt' = attempt + 1
           /\ Last(log'.outs) \in {"short", "nosize"})
          => /\ log'.sleeps = (IF attempt = 0 THEN <<>> ELSE log.sleeps)
             /\ open' = open /\ up_ftp' = up_ftp /\ nsess' = nsess
             /\ todo' = todo
       /\ (/\ pc = "upload" /\ attempt > 0 /\ run' = run
           /\ Last(log.outs) \in {"short", "nosize"}
           /\ Len(log'.outs) = Len(log.outs) + 1
           /\ Last(log'.outs) \in {"ok", "nosize", "short"})
          => /\ Head(todo) \in DOMAIN remote'
             /\ remote'[Head(todo)] >= LocalSize(Head(todo)) - 1
             /\ (Last(log'.outs) # "short" => remote'[Head(todo)] = LocalSize(Head(todo)))]_vars

C21_Witness ==
    /\ log.outs = <<"short", "nosize", "ok">>
    /\ log.sleeps = <<>>
    /\ log.ret = "true"
    /\ nsess = 1

\* C22: when a delete of remote prune has failed, a delete was all the same
\* issued for every listed file of every set selected for removal (the other
\* files of the same set and the files of the other sets), every file whose
\* delete did not fail is gone from the remote directory, and local prune
\* runs afterwards: the run does not finish without it.
C22_FailedDeleteDoesNotAbort ==
    (log.rissued # log.rremoved) =>
        /\ \E order \in SortedByTimestamp(RemoteCandidates(log.rlisting)) :
              log.rissued = NamesOf(log.rlisting, Range(RemoteToRemove(order, max_copies)))
        /\ log.rremoved \subseteq log.rissued
        /\ log.rremoved \cap DOMAIN remote = {}
        /\ pc \in {"cleanup_local", "finish", "exit"}
        /\ (pc \in {"finish", "exit"} => "local" \in log.pruned /\ log.ended # "fatal")

C22_Witness ==
    /\ "local" \in log.pruned
    /\ \E f \in log.rissued \ log.rremoved :
          /\ \E g \in log.rremoved :
                get_archive_base_name(g) = get_archive_base_name(f)
          /\ \E g \in log.rremoved :
                get_archive_base_name(g) # get_archive_base_name(f)

\* C23: within a run, a step that issues remote deletes or removes remote
\* files, and a step that issues local removals or removes local files, is
\* taken only when every located set has its outcome recorded, in the order
\* of the scan; a step of remote prune is taken before local prune has run,
\* and a step of local prune only after remote prune is over.
C23_PhaseOrder ==
    [][LET remote_step == \/ log'.rissued # log.rissued
                          \/ ~(DOMAIN remote \subseteq DOMAIN remote')
                          \/ "remote" \in log'.pruned \ log.pruned
           local_step == \/ log'.lissued # log.lissued
                         \/ ~(local \subseteq local')
                         \/ "local" \in log'.pruned \ log.pruned
       IN  run' = run =>
             /\ (remote_step \/ local_step) =>
                   /\ archive_sets # <<>>
                   /\ Len(log.results) = Len(archive_sets)
                   /\ \A i \in 1..Len(archive_sets) :
                         log.results[i].base = archive_sets[i].base
                   /\ successful_uploads \cup failed_uploads
                         = {archive_sets[i].base : i \in 1..Len(archive_sets)}
             /\ remote_step => "local" \notin log.pruned /\ log.lissued = {}
             /\ local_step => "remote" \in log.pruned /\ ~remote_step]_vars

C23_Witness ==
    /\ log.rremoved # {}
    /\ log.lremoved # {}
    /\ Len(log.results) = MaxLocalSets
    /\ failed_uploads # {}

\* ------------------------------------------------- sets without a timestamp
\* A source directory that holds sets with a timestamp next to a set whose
\* name has none (U0) and a set whose name has the pattern with a date that
\* strptime refuses (M0, month 13).
MaxStampFiles == 4

M0 == Tar(Stem("20261301"))
StampNames == {A0, A1, B0, C0, U0, M0}

InitStamp ==
    /\ local \in {d \in SUBSET StampNames : Cardinality(d) \in 1..MaxStampFiles}
    /\ remote = <<>>
    /\ produced = {}
    /\ max_copies \in 0..MaxCopiesCfg
    /\ max_runs = 1
    /\ run = 1
    /\ pc = "idle"
    /\ status = -1
    /\ open = {}
    /\ self_ftp = 0
    /\ nsess = 0
    /\ archive_sets = <<>>
    /\ idx = 0
    /\ successful_uploads = {}
    /\ failed_uploads = {}
    /\ todo = <<>>
    /\ attempt = 0
    /\ up_ftp = 0
    /\ faults = 0
    /\ remote_dir = DefaultRemoteDir
    /\ dirs = {Root, DefaultRemoteDir.parts}
    /\ denied = {}
    /\ ftp_cwd = Root
    /\ log = NewLog

SpecStamp == InitStamp /\ [][NextDir]_vars

\* C24: a located set whose base name gives no timestamp (no match of the
\* pattern, or a date that does not parse) is reconciled like the others: a
\* completed run has recorded it as uploaded or failed; and no file of it is
\* the target of a delete of remote prune or of a removal of local prune, so
\* all its files stay in the source directory and what was stored of it stays
\* on the remote side.
C24_UnstampedNeverPruned ==
    \A i \in 1..Len(archive_sets) :
        LET b == archive_sets[i].base
            files == Range(archive_sets[i].files)
        IN  get_archive_timestamp(b) = NoTimestamp =>
              /\ files \cap (log.lissued \cup log.rissued) = {}
              /\ NamesOf(log.rlisting, {b}) \cap log.rissued = {}
              /\ files \subseteq local
              /\ NamesOf(log.rlisting, {b}) \subseteq DOMAIN remote
              /\ (log.ended = "completed" =>
                    /\ b \in successful_uploads \cup failed_uploads
                    /\ \E k \in 1..Len(log.results) : log.results[k].base = b)

C24_Witness ==
    /\ log.ended = "completed"
    /\ get_archive_base_name(U0) \in successful_uploads
    /\ get_archive_base_name(M0) \in failed_uploads
    /\ log.rremoved # {}
    /\ log.lremoved # {}
    /\ U0 \in log.rlisting

\* C26: at every point of a run the two accumulators have no base name in
\* common and hold exactly the base names whose outcome this run has recorded
\* so far, the uploaded ones in one and the failed ones in the other, all of
\* them sets of the scan at or before the loop's position; when a run that
\* found at least one set ends with status 0 or 1, the two together are the
\* base names of the scan.
C26_AccumulatorsPartition ==
    LET done == {log.results[k].base : k \in 1..Len(log.results)}
        scanned == {archive_sets[i].base : i \in 1..Len(archive_sets)}
    IN  /\ successful_uploads \cap failed_uploads = {}
        /\ successful_uploads \cup failed_uploads = done
        /\ successful_uploads
             = {log.results[k].base : k \in {j \in 1..Len(log.results) : log.results[j].ok}}
        /\ done \subseteq {archive_sets[i].base : i \in 1..idx}
        /\ Cardinality(done) = Len(log.results)
        /\ (pc = "exit" /\ status \in {0, 1} /\ archive_sets # <<>>)
              => successful_uploads \cup failed_uploads = scanned

C26_Witness ==
    /\ pc = "exit"
    /\ status = 1
    /\ Len(archive_sets) = MaxLocalSets
    /\ Cardinality(successful_uploads) = 2
    /\ Cardinality(failed_uploads) = 1

\* ------------------------------------------------- the remote path walked
\* Runs on an empty source directory, for every remote path of up to
\* MaxPathParts segments, absolute and relative, on every server tree made
\* of directories of the path and of directories of the same names under its
\* first segment, with at most one place where the server refuses MKD.
MaxPathParts == 2

SegmentNames == <<"a", "b", "c", "d">>
RemotePaths ==
    {[abs |-> x, parts |-> SubSeq(SegmentNames, 1, k)] : x \in BOOLEAN, k \in 1..MaxPathParts}
TreeLeaves ==
    {SubSeq(SegmentNames, 1, k) : k \in 1..MaxPathParts}
        \cup {<<SegmentNames[1]>> \o SubSeq(SegmentNames, 1, k) : k \in 1..MaxPathParts}
Closure(S) ==
    {Root} \cup UNION {{SubSeq(path, 1, k) : k \in 0..Len(path)} : path \in S}

InitEnsure ==
    /\ local = {}
    /\ remote = <<>>
    /\ produced = {}
    /\ max_copies = MaxCopiesCfg
    /\ max_runs = 1
    /\ run = 1
    /\ pc = "idle"
    /\ status = -1
    /\ open = {}
    /\ self_ftp = 0
    /\ nsess = 0
    /\ archive_sets = <<>>
    /\ idx = 0
    /\ successful_uploads = {}
    /\ failed_uploads = {}
    /\ todo = <<>>
    /\ attempt = 0
    /\ up_ftp = 0
    /\ faults = 0
    /\ remote_dir \in RemotePaths
    /\ dirs \in {Closure(S) : S \in SUBSET TreeLeaves}
    /\ denied \in {D \in SUBSET TreeLeaves : Cardinality(D) <= 1 /\ D \cap dirs = {}}
    /\ ftp_cwd = Root
    /\ log = NewLog

NextEnsure ==
    \/ Connect
    \/ EnsureRemoteDirectory
    \/ Scan

SpecEnsure == InitEnsure /\ [][NextEnsure]_vars

\* C25: a run that ended on a fatal error has status 2 and has issued no
\* store, no remote delete and no local removal; and when the Ensurer has
\* returned normally, every prefix of the remote path, taken from the login
\* directory, is a directory of the server that the Ensurer entered, passed
\* through or created, and no directory was created before its parent.
C25_EnsurerFatalOrComplete ==
    /\ (pc = "exit" /\ log.ended = "fatal") =>
          /\ status = 2
          /\ ~log.stored
          /\ log.rissued = {} /\ log.lissued = {} /\ log.pruned = {}
          /\ remote = <<>>
    /\ log.ensured =>
          LET target == Resolve(Root, remote_dir)
          IN  /\ \A k \in 1..Len(target) :
                    /\ SubSeq(target, 1, k) \in dirs
                    /\ \E i \in 1..Len(log.walked) :
                          IsPrefix(SubSeq(target, 1, k), log.walked[i].path)
              /\ \A i, j \in 1..Len(log.walked) :
                    (/\ log.walked[i].op = "mkd" /\ log.walked[j].op = "mkd"
                     /\ log.walked[j].path = Parent(log.walked[i].path)) => j < i

====
